---- MODULE Spec2Model ----
(***************************************************************************)
(* A model of pybdv's metadata engine (pybdv/metadata.py) and of the       *)
(* conversion pipeline (pybdv/converter.py).                               *)
(*                                                                         *)
(* The XML document is modelled as the tree that ElementTree parses from   *)
(* and serialises to disk: the Attributes registries, the ViewSetup        *)
(* elements, the Timepoints range and the ViewRegistration elements, each  *)
(* in document order.                                                      *)
(***************************************************************************)
EXTENDS Integers, Sequences, FiniteSets, TLC

VARIABLES
    xml,      \* the XML document on disk (xml.exists = FALSE: no file yet)
    call,     \* the last call made: operation, arguments, outcome
    ncalls,   \* number of calls made so far
    hist,     \* history: timepoints written, first write of every setup
    container,\* the data container: datasets and container-native metadata
    conv,     \* the conversion run: its arguments and its position
    copy      \* copy_dataset: source, destination and position in the block grid

vars == <<xml, call, ncalls, hist, container, conv, copy>>

----------------------------------------------------------------------------
(* Bounds of the model *)

MaxCalls == 4
\* most scale levels of one setup and timepoint
MaxLevels == 2

----------------------------------------------------------------------------
(* Python values *)

\* an optional value: None is <<>>, a value v is <<v>>
None == <<>>
Some(v) == <<v>>

\* Python numbers: an int or a float (floats with integral value only)
PyInt(n) == [t |-> "int", v |-> n]
PyFloat(n) == [t |-> "float", v |-> n]

\* str(x) of a number: the literal it prints, "1" for 1 and "1.0" for 1.0
Str(x) == [lit |-> x.t, v |-> x.v]
\* float(text) of such a literal
Float(tok) == PyFloat(tok.v)
\* Python's == on numbers: 1 == 1.0
NumEq(x, y) == x.v = y.v
NumTupleEq(a, b) == Len(a) = Len(b) /\ \A i \in 1..Len(a) : NumEq(a[i], b[i])

Digits == <<"0", "1", "2", "3", "4", "5", "6", "7", "8", "9">>
RECURSIVE StrNat(_)
StrNat(n) == IF n < 10 THEN Digits[n + 1] ELSE StrNat(n \div 10) \o Digits[(n % 10) + 1]
\* str(n) of an int
StrInt(n) == IF n < 0 THEN "-" \o StrNat(-n) ELSE StrNat(n)

Min(a, b) == IF a <= b THEN a ELSE b
Max(a, b) == IF a >= b THEN a ELSE b
Range(s) == {s[i] : i \in 1..Len(s)}
RECURSIVE SeqMax(_)
SeqMax(s) == IF Len(s) = 1 THEN s[1] ELSE Max(s[1], SeqMax(Tail(s)))

\* a dict given as the sequence of its (key, value) items, in insertion order
Keys(items) == {items[i][1] : i \in 1..Len(items)}
Lookup(items, k) == items[CHOOSE i \in 1..Len(items) : items[i][1] = k][2]
\* the mapping itself: what dict == dict compares
AsDict(items) == [k \in Keys(items) |-> Lookup(items, k)]
\* d[k] = v on a dict: replaces the value in place, or appends the item
DictSet(items, k, v) ==
    IF k \in Keys(items)
    THEN [i \in 1..Len(items) |-> IF items[i][1] = k THEN <<k, v>> ELSE items[i]]
    ELSE Append(items, <<k, v>>)

----------------------------------------------------------------------------
(* The XML document *)

NoDocument ==
    [exists |-> FALSE, format |-> "", attrsets |-> <<>>, setups |-> <<>>,
     first |-> 0, last |-> 0, vregs |-> <<>>]

\* index of the first ViewSetup with this id, 0 if there is none
RECURSIVE FindSetupFrom(_, _, _)
FindSetupFrom(setups, setup_id, i) ==
    IF i > Len(setups) THEN 0
    ELSE IF setups[i].id = setup_id THEN i
    ELSE FindSetupFrom(setups, setup_id, i + 1)
FindSetup(setups, setup_id) == FindSetupFrom(setups, setup_id, 1)

\* _check_setup: the error it raises, "" if the configuration agrees
CheckSetup(vs, setup_name, resolution, shape, attributes, unit) ==
    LET dz == resolution[1]
        dy == resolution[2]
        dx == resolution[3]
        nz == shape[1]
        ny == shape[2]
        nx == shape[3]
        res_exp == [i \in 1..Len(vs.voxelSize) |-> Float(vs.voxelSize[i])]
    IN  IF vs.name # setup_name THEN "ValueError: Incompatible setup name"
        ELSE IF vs.size # <<nx, ny, nz>> THEN "ValueError: Incompatible dataset size"
        ELSE IF vs.unit # unit THEN "ValueError: Incompatible unit of measurement"
        ELSE IF ~NumTupleEq(res_exp, <<dx, dy, dz>>) THEN "ValueError: Incompatible voxel size"
        ELSE IF AsDict(vs.attributes) # AsDict(attributes)
             THEN "ValueError: Incompatible view attributes"
        ELSE ""

\* the ViewSetup element written for a new setup
NewViewSetup(setup_id, setup_name, resolution, shape, attributes, unit) ==
    [id |-> setup_id, name |-> setup_name,
     size |-> <<shape[3], shape[2], shape[1]>>,
     unit |-> unit,
     voxelSize |-> <<Str(resolution[3]), Str(resolution[2]), Str(resolution[1])>>,
     attributes |-> attributes]

\* mutant: a second ViewSetup element is appended for an id that is there already
RequireViewSetupAppends(setups, setup_id, setup_name, resolution, shape, attributes, unit) ==
    LET i == FindSetup(setups, setup_id)
        err == IF i = 0 THEN ""
               ELSE CheckSetup(setups[i], setup_name, resolution, shape, attributes, unit)
    IN  [err |-> err,
         setups |-> IF err = ""
                    THEN Append(setups, NewViewSetup(setup_id, setup_name, resolution,
                                                     shape, attributes, unit))
                    ELSE setups]

\* _require_view_setup: check the setup if it is there, append it otherwise
RequireViewSetup(setups, setup_id, setup_name, resolution, shape, attributes, unit) ==
    LET i == FindSetup(setups, setup_id)
    IN  IF i # 0
        THEN [err |-> CheckSetup(setups[i], setup_name, resolution, shape, attributes, unit),
              setups |-> setups]
        ELSE [err |-> "",
              setups |-> Append(setups, NewViewSetup(setup_id, setup_name, resolution,
                                                     shape, attributes, unit))]

\* _initialize_attributes: one registry per attribute name, holding the given id
InitializeAttributes(attributes) ==
    [i \in 1..Len(attributes) |->
        [name |-> attributes[i][1],
         entries |-> <<[id |-> attributes[i][2], name |-> StrInt(attributes[i][2])]>>]]

\* _update_attributes: every registry gets the id of its attribute, if it is new
UpdateAttributes(attrsets, attributes) ==
    IF \E i \in 1..Len(attrsets) : attrsets[i].name \notin Keys(attributes)
    THEN [err |-> "AssertionError", attrsets |-> attrsets]
    ELSE [err |-> "",
          attrsets |->
            [i \in 1..Len(attrsets) |->
                LET this_id == Lookup(attributes, attrsets[i].name)
                    this_ids == {attrsets[i].entries[j].id : j \in 1..Len(attrsets[i].entries)}
                IN  IF this_id \notin this_ids
                    THEN [attrsets[i] EXCEPT
                            !.entries = Append(@, [id |-> this_id, name |-> StrInt(this_id)])]
                    ELSE attrsets[i]]]

\* the ViewTransform elements of _write_default_affine
\* the text of the entries of the default affine that are 0.0
ZeroText == Str(PyFloat(0))

DefaultTransforms(resolution) ==
    LET dx == Str(resolution[3])
        dy == Str(resolution[2])
        dz == Str(resolution[1])
        z == ZeroText
    IN  <<[affine |-> <<dx, z, z, z, z, dy, z, z, z, z, dz, z>>, Name |-> None]>>

\* the ViewTransform elements of _write_affine
AffineTransforms(affine) ==
    IF affine.kind = "list"
    THEN <<[affine |-> [i \in 1..Len(affine.trafo) |-> Str(affine.trafo[i])], Name |-> None]>>
    ELSE [k \in 1..Len(affine.items) |->
            [affine |-> [i \in 1..Len(affine.items[k][2]) |-> Str(affine.items[k][2][i])],
             Name |-> Some(affine.items[k][1])]]

\* _write_default_affine / _write_affine: append one ViewRegistration element
WriteAffine(vregs, setup_id, timepoint, resolution, affine) ==
    Append(vregs,
           [timepoint |-> timepoint, setup |-> setup_id,
            transforms |-> IF affine.kind = "none" THEN DefaultTransforms(resolution)
                           ELSE AffineTransforms(affine)])

\* mutant: the range is set to the timepoint of the call
WidenTimepointsResets(first, last, timepoint) ==
    [first |-> timepoint, last |-> timepoint]

\* the Timepoints update of write_xml_metadata on an existing document
WidenTimepoints(first, last, timepoint) ==
    [first |-> Min(first, timepoint), last |-> Max(last, timepoint)]

\* what setup_name stands for: 'Setup%i' % setup_id if it is None
SetupName(a) ==
    IF a.setup_name = None THEN "Setup" \o StrInt(a.setup_id) ELSE a.setup_name[1]

\* the tree write_xml_metadata has built when it raises or writes; a.shape is the
\* shape of the scale-0 dataset it reads from the container
XmlTree(doc, a) ==
    LET upd == UpdateAttributes(doc.attrsets, a.attributes)
        tp == WidenTimepoints(doc.first, doc.last, a.timepoint)
        base == IF doc.exists
                THEN [doc EXCEPT !.attrsets = upd.attrsets,
                                 !.first = tp.first, !.last = tp.last]
                ELSE [exists |-> TRUE,
                      format |-> IF a.is_h5 THEN "bdv.hdf5" ELSE "bdv.n5",
                      attrsets |-> InitializeAttributes(a.attributes),
                      setups |-> <<>>,
                      first |-> a.timepoint, last |-> a.timepoint,
                      vregs |-> <<>>]
        req == RequireViewSetup(base.setups, a.setup_id, SetupName(a), a.resolution,
                                a.shape, a.attributes, a.unit)
    IN  IF doc.exists /\ upd.err # "" THEN [err |-> upd.err, tree |-> doc]
        ELSE IF req.err # "" THEN [err |-> req.err, tree |-> base]
        ELSE [err |-> "",
              tree |-> [base EXCEPT
                          !.setups = req.setups,
                          !.vregs = WriteAffine(@, a.setup_id, a.timepoint,
                                                a.resolution, a.affine)]]

\* mutant: the tree is written to disk also when the merge raised
WriteXmlAlways(doc, a) ==
    LET t == XmlTree(doc, a)
    IN  [err |-> t.err, doc |-> t.tree]

\* write_xml_metadata: the error it raises ("" if none) and the document on disk
\* after the call; tree.write is its last statement
WriteXml(doc, a) ==
    LET t == XmlTree(doc, a)
    IN  [err |-> t.err, doc |-> IF t.err = "" THEN t.tree ELSE doc]

\* mutant: the name is written to every entry of the registry
WriteAttributeNameAll(doc, attribute, attribute_id, attribute_name) ==
    IF ~doc.exists THEN [err |-> "FileNotFoundError", doc |-> doc]
    ELSE IF ~\E i \in 1..Len(doc.attrsets) :
                /\ doc.attrsets[i].name = attribute
                /\ \E j \in 1..Len(doc.attrsets[i].entries) :
                        doc.attrsets[i].entries[j].id = attribute_id
    THEN [err |-> "ValueError: Could not find", doc |-> doc]
    ELSE [err |-> "",
          doc |-> [doc EXCEPT !.attrsets =
                    [i \in 1..Len(doc.attrsets) |->
                        IF doc.attrsets[i].name = attribute
                        THEN [doc.attrsets[i] EXCEPT !.entries =
                                [j \in 1..Len(@) |-> [@[j] EXCEPT !.name = attribute_name]]]
                        ELSE doc.attrsets[i]]]]

\* write_attribute_name: the display name of the first entry with this id in the
\* first registry of this attribute that holds one
WriteAttributeName(doc, attribute, attribute_id, attribute_name) ==
    LET has(i) == /\ doc.attrsets[i].name = attribute
                  /\ \E j \in 1..Len(doc.attrsets[i].entries) :
                        doc.attrsets[i].entries[j].id = attribute_id
        found == {i \in 1..Len(doc.attrsets) : has(i)}
        i0 == CHOOSE i \in found : \A k \in found : i <= k
        hits == {j \in 1..Len(doc.attrsets[i0].entries) :
                    doc.attrsets[i0].entries[j].id = attribute_id}
        j0 == CHOOSE j \in hits : \A k \in hits : j <= k
    IN  IF ~doc.exists THEN [err |-> "FileNotFoundError", doc |-> doc]
        ELSE IF found = {} THEN [err |-> "ValueError: Could not find", doc |-> doc]
        ELSE [err |-> "",
              doc |-> [doc EXCEPT !.attrsets[i0].entries[j0].name = attribute_name]]

\* mutant: an unset id of a new setup becomes the current maximum, not the next id
ResolveIdNoIncrement(this_id, this_attributes, name, xml_ids) ==
    IF this_id = None /\ this_attributes = None
    THEN [err |-> "", id |-> SeqMax(xml_ids)]
    ELSE IF this_id = None
    THEN IF name \in Keys(this_attributes[1])
         THEN [err |-> "", id |-> Lookup(this_attributes[1], name)]
         ELSE [err |-> "KeyError", id |-> 0]
    ELSE IF this_attributes # None
    THEN IF name \notin Keys(this_attributes[1]) THEN [err |-> "KeyError", id |-> 0]
         ELSE IF this_id[1] # Lookup(this_attributes[1], name)
         THEN [err |-> "ValueError: Expect id", id |-> 0]
         ELSE [err |-> "", id |-> this_id[1]]
    ELSE [err |-> "", id |-> this_id[1]]

\* the id validate_attributes gives one registered attribute name: this_id is the
\* requested id (None if unset), this_attributes the mapping of the existing
\* ViewSetup (None if there is none), xml_ids the ids of the registry
ResolveId(this_id, this_attributes, name, xml_ids) ==
    IF this_id = None /\ this_attributes = None
    THEN IF Len(xml_ids) = 0 THEN [err |-> "ValueError: max() arg is an empty sequence", id |-> 0]
         ELSE [err |-> "", id |-> SeqMax(xml_ids) + 1]
    ELSE IF this_id = None
    THEN IF name \in Keys(this_attributes[1])
         THEN [err |-> "", id |-> Lookup(this_attributes[1], name)]
         ELSE [err |-> "KeyError", id |-> 0]
    ELSE IF this_attributes # None
    THEN IF name \notin Keys(this_attributes[1]) THEN [err |-> "KeyError", id |-> 0]
         ELSE IF this_id[1] # Lookup(this_attributes[1], name)
         THEN [err |-> "ValueError: Expect id", id |-> 0]
         ELSE [err |-> "", id |-> this_id[1]]
    ELSE [err |-> "", id |-> this_id[1]]

\* the loop of validate_attributes over the registries from the i-th on
RECURSIVE ValidateFrom(_, _, _, _, _)
ValidateFrom(attrsets, attributes, this_attributes, i, attrs_out) ==
    IF i > Len(attrsets) THEN [err |-> "", value |-> attrs_out]
    ELSE LET name == attrsets[i].name
         IN  IF name \notin Keys(attributes)
             THEN [err |-> "ValueError: Expect attributes to contain", value |-> <<>>]
             ELSE LET xml_ids == [j \in 1..Len(attrsets[i].entries) |-> attrsets[i].entries[j].id]
                      r == ResolveId(Lookup(attributes, name), this_attributes, name, xml_ids)
                  IN  IF r.err # "" THEN [err |-> r.err, value |-> <<>>]
                      ELSE ValidateFrom(attrsets, attributes, this_attributes, i + 1,
                                        DictSet(attrs_out, name, r.id))

\* mutant: names the document does not register are let through
ValidateAttributesNoExcess(doc, attributes, setup_id) ==
    IF doc.exists
    THEN LET k == FindSetup(doc.setups, setup_id)
             this_attributes == IF k = 0 THEN None ELSE Some(doc.setups[k].attributes)
         IN  ValidateFrom(doc.attrsets, attributes, this_attributes, 1, <<>>)
    ELSE [err |-> "",
          value |-> [i \in 1..Len(attributes) |->
                        <<attributes[i][1],
                          IF attributes[i][2] = None THEN 0 ELSE attributes[i][2][1]>>]]

\* validate_attributes: attributes maps names to ids or None; the result maps the
\* names to ids
ValidateAttributes(doc, attributes, setup_id) ==
    IF doc.exists
    THEN LET k == FindSetup(doc.setups, setup_id)
             this_attributes == IF k = 0 THEN None ELSE Some(doc.setups[k].attributes)
             r == ValidateFrom(doc.attrsets, attributes, this_attributes, 1, <<>>)
             all_names_xml == {doc.attrsets[i].name : i \in 1..Len(doc.attrsets)}
         IN  IF r.err # "" THEN r
             ELSE IF Keys(attributes) \ all_names_xml # {}
             THEN [err |-> "ValueError: Attributes contains unexpected names", value |-> <<>>]
             ELSE r
    ELSE [err |-> "",
          value |-> [i \in 1..Len(attributes) |->
                        <<attributes[i][1],
                          IF attributes[i][2] = None THEN 0 ELSE attributes[i][2][1]>>]]

\* the transforms get_affine collects from one ViewRegistration, from the i-th on
RECURSIVE CollectTransforms(_, _, _)
CollectTransforms(transforms, i, affine) ==
    IF i > Len(transforms) THEN affine
    ELSE LET vt == transforms[i]
             name == IF vt.Name = None THEN "affine" \o StrInt(i - 1) ELSE vt.Name[1]
             trafo == [k \in 1..Len(vt.affine) |-> Float(vt.affine[k])]
         IN  CollectTransforms(transforms, i + 1, DictSet(affine, name, trafo))

\* get_affine: the transforms of the first ViewRegistration of (setup_id, timepoint)
GetAffine(doc, setup_id, timepoint) ==
    LET hits == {i \in 1..Len(doc.vregs) :
                    doc.vregs[i].setup = setup_id /\ doc.vregs[i].timepoint = timepoint}
        i0 == CHOOSE i \in hits : \A k \in hits : i <= k
    IN  IF hits = {} THEN [err |-> "ValueError: Could not find setup", value |-> <<>>]
        ELSE [err |-> "", value |-> CollectTransforms(doc.vregs[i0].transforms, 1, <<>>)]

\* get_time_range
GetTimeRange(doc) == <<doc.first, doc.last>>

----------------------------------------------------------------------------
(* The data container and its metadata *)

\* setups and timepoints the container may hold data for
DataKeys == {<<0, 0>>, <<0, 1>>, <<1, 0>>}

\* astype('float32') of an integer: exact up to 2^24, rounded to 24 bits beyond
RECURSIVE Float32Unit(_)
Float32Unit(n) == IF n < 16777216 THEN 1 ELSE 2 * Float32Unit(n \div 2)
Float32(n) ==
    LET a == IF n < 0 THEN -n ELSE n
        u == Float32Unit(a)
        q == a \div u
        r == a % u
        up == IF 2 * r > u \/ (2 * r = u /\ q % 2 = 1) THEN q + 1 ELSE q
    IN  IF n < 0 THEN -(up * u) ELSE up * u

\* lst[::-1]
Reversed(lst) == [i \in 1..Len(lst) |-> lst[Len(lst) + 1 - i]]

\* a scale factor is an int n (v is <<n>>) or a list of three ints (v is the list)
IntFactor(n) == [kind |-> "int", v |-> <<n>>]
ListFactor(l) == [kind |-> "list", v |-> l]
\* a float given as a factor: n.0
FloatFactor(n) == [kind |-> "float", v |-> <<n>>]

EmptyContainer ==
    [format |-> "",
     data |-> [k \in DataKeys |-> <<>>],
     resolutions |-> [s \in {k[1] : k \in DataKeys} |-> None],
     subdivisions |-> [s \in {k[1] : k \in DataKeys} |-> None],
     rootAttrs |-> [s \in {k[1] : k \in DataKeys} |->
                        [downsamplingFactors |-> None, dataType |-> None]],
     groupAttrs |-> [k \in DataKeys |-> [multiScale |-> None, resolution |-> None]]]

\* a dataset of one scale level, as created; N5 keeps attributes on it
NewDataset(chunks, dtype) ==
    [chunks |-> chunks, dtype |-> dtype, downsamplingFactors |-> None]

\* mutant: the scale of a level is its own factor, not the product so far
H5EffectiveScalesRelative(scale_factors) ==
    [k \in 1..Len(scale_factors) |->
        IF scale_factors[k].kind = "int"
        THEN <<scale_factors[k].v[1], scale_factors[k].v[1], scale_factors[k].v[1]>>
        ELSE scale_factors[k].v]

\* the effective scales of write_h5_metadata, one (z, y, x) per level
RECURSIVE H5EffectiveScales(_)
H5EffectiveScales(scale_factors) ==
    IF scale_factors = <<>> THEN <<>>
    ELSE LET n == Len(scale_factors)
             before == H5EffectiveScales(SubSeq(scale_factors, 1, n - 1))
             effective_scale == IF n = 1 THEN <<1, 1, 1>> ELSE before[n - 1]
             scale_factor == scale_factors[n]
         IN  Append(before,
                    IF scale_factor.kind = "int"
                    THEN [i \in 1..3 |-> effective_scale[i] * scale_factor.v[1]]
                    ELSE [i \in 1..3 |-> scale_factor.v[i] * effective_scale[i]])

\* the scales array of write_h5_metadata: reversed rows, as float32
H5Scales(scale_factors) ==
    LET eff == H5EffectiveScales(scale_factors)
    IN  [k \in 1..Len(eff) |-> [i \in 1..3 |-> Float32(Reversed(eff[k])[i])]]

\* the chunks array of write_h5_metadata: the chunks of the levels, reversed
H5Chunks(levels, scale_factors) ==
    [k \in 1..Len(scale_factors) |-> Reversed(levels[k].chunks)]

\* mutant: a record that is there is overwritten
CompareOrWriteOverwrites(stored, computed) ==
    [err |-> "", value |-> Some(computed)]

\* compare-or-write of one HDF5 record: stored is None or the array on disk
CompareOrWrite(stored, computed) ==
    IF stored # None
    THEN IF stored[1] # computed
         THEN [err |-> "RuntimeError: Metadata already exists and is inconsistent",
               value |-> stored]
         ELSE [err |-> "", value |-> stored]
    ELSE [err |-> "", value |-> Some(computed)]

\* write_h5_metadata(path, scale_factors, setup_id, timepoint): the error it
\* raises and the container after the call
WriteH5(c, scale_factors, setup_id, timepoint) ==
    LET levels == c.data[<<setup_id, timepoint>>]
        res == CompareOrWrite(c.resolutions[setup_id], H5Scales(scale_factors))
        sub == CompareOrWrite(c.subdivisions[setup_id], H5Chunks(levels, scale_factors))
    IN  IF c.format = "" /\ scale_factors # <<>> THEN [err |-> "OSError", c |-> c]
        ELSE IF Len(scale_factors) > Len(levels) THEN [err |-> "KeyError", c |-> c]
        ELSE IF res.err # "" THEN [err |-> res.err, c |-> c]
        ELSE IF sub.err # ""
             THEN [err |-> sub.err, c |-> [c EXCEPT !.resolutions[setup_id] = res.value]]
        ELSE [err |-> "",
              c |-> [c EXCEPT !.format = "hdf5",
                              !.resolutions[setup_id] = res.value,
                              !.subdivisions[setup_id] = sub.value]]

\* the effective scale factors of write_n5_metadata
RECURSIVE N5EffectiveScales(_)
N5EffectiveScales(scale_factors) ==
    LET n == Len(scale_factors)
        before == N5EffectiveScales(SubSeq(scale_factors, 1, n - 1))
    IN  IF n = 1
        THEN \* the first factor is kept as it is given (an int n: <<n>> here)
             <<scale_factors[1].v>>
        ELSE Append(before,
                    [i \in 1..3 |-> before[n - 1][i] * Reversed(scale_factors[n].v)[i]])

\* mutant: an attribute that is there is overwritten
N5CompareOverwrites(stored, computed) == ""

\* the consistency check of one N5 attribute: the error, "" if there is none
N5Compare(stored, computed) ==
    IF stored # None /\ stored[1] # computed
    THEN "RuntimeError: Metadata already exists and is inconsistent"
    ELSE ""

\* the per-level attributes written by the last loop of write_n5_metadata
N5LevelAttrs(levels, effective_scales) ==
    [k \in 1..Len(levels) |->
        IF k <= Len(effective_scales)
        THEN [levels[k] EXCEPT !.downsamplingFactors = Some(effective_scales[k])]
        ELSE levels[k]]

\* write_n5_metadata(path, scale_factors, resolution, setup_id, timepoint): the
\* error it raises and the container after the call; attributes written before
\* the statement that raises stay written
WriteN5(c, scale_factors, resolution, setup_id, timepoint) ==
    LET key == <<setup_id, timepoint>>
        levels == c.data[key]
        effective_scales == N5EffectiveScales(scale_factors)
        dtype == levels[1].dtype
        attrs == c.rootAttrs[setup_id]
        c1 == [c EXCEPT !.rootAttrs[setup_id].downsamplingFactors = Some(effective_scales)]
        c2 == [c1 EXCEPT !.rootAttrs[setup_id].dataType = Some(dtype)]
        c3 == [c2 EXCEPT !.groupAttrs[key] =
                    [multiScale |-> Some(TRUE), resolution |-> Some(Reversed(resolution))],
                         !.data[key] = N5LevelAttrs(levels, effective_scales)]
    IN  IF scale_factors = <<>> THEN [err |-> "IndexError", c |-> c]
        ELSE IF \E k \in 2..Len(scale_factors) : scale_factors[k].kind = "int"
        THEN [err |-> "TypeError", c |-> c]
        ELSE IF scale_factors[1].kind = "int" /\ Len(scale_factors) > 1
        THEN [err |-> "TypeError", c |-> c]
        ELSE IF levels = <<>> THEN [err |-> "KeyError", c |-> c]
        ELSE IF N5Compare(attrs.downsamplingFactors, effective_scales) # ""
        THEN [err |-> N5Compare(attrs.downsamplingFactors, effective_scales), c |-> c]
        ELSE IF N5Compare(attrs.dataType, dtype) # ""
        THEN [err |-> N5Compare(attrs.dataType, dtype), c |-> c1]
        ELSE IF scale_factors[1].kind = "int"
        THEN [err |-> "TypeError",
              c |-> [c2 EXCEPT !.groupAttrs[key] =
                        [multiScale |-> Some(TRUE),
                         resolution |-> Some(Reversed(resolution))]]]
        ELSE IF Len(effective_scales) > Len(levels) THEN [err |-> "KeyError", c |-> c3]
        ELSE [err |-> "", c |-> c3]

----------------------------------------------------------------------------
(* The conversion pipeline *)

HDF5_EXTENSIONS == {".h5", ".hdf", ".hdf5"}
XML_EXTENSIONS == {".xml"}
DownscaleModes == {"nearest", "mean", "max", "min", "interpolate"}
\* handle_setup_id: only ids below this are supported
SetupIdLimit == 100

\* normalize_output_path: the error for the extension of the output path, "" if
\* it is supported (upper case extensions are lowered by the caller of this)
NormalizeOutputPath(ext) ==
    IF ext = "" \/ ext \in HDF5_EXTENSIONS \/ ext \in XML_EXTENSIONS THEN ""
    ELSE "ValueError: File extension not supported"

\* the setup ids handle_setup_id reads from the group t00000 of the container
ExistingSetupIds(c) == {k[1] : k \in {d \in DataKeys : d[2] = 0 /\ c.data[d] # <<>>}}

SetMax(S) == CHOOSE x \in S : \A y \in S : y <= x

\* handle_setup_id(setup_id, h5_path); answer is what the user types at the prompt
HandleSetupId(c, setup_id, answer) ==
    LET setup_ids == IF c.format # "" THEN ExistingSetupIds(c) ELSE {-1}
        id == IF setup_id = None THEN SetMax(setup_ids) + 1 ELSE setup_id[1]
    IN  IF c.format # "" /\ ExistingSetupIds(c) = {} THEN [err |-> "KeyError", id |-> 0]
        ELSE IF setup_id # None /\ id \in setup_ids /\ answer # "y"
        THEN [err |-> "SystemExit", id |-> id]
        ELSE IF ~(id < SetupIdLimit) THEN [err |-> "AssertionError", id |-> id]
        ELSE [err |-> "", id |-> id]

\* the assertions of make_scales: the error, "" if the factors are accepted
MakeScalesAsserts(downscale_factors, downscale_mode) ==
    IF downscale_mode \notin DownscaleModes THEN "AssertionError"
    ELSE IF \E i \in 1..Len(downscale_factors) :
                downscale_factors[i].kind \notin {"int", "list"}
    THEN "AssertionError"
    ELSE IF \E i \in 1..Len(downscale_factors) :
                downscale_factors[i].kind = "list" /\ Len(downscale_factors[i].v) # 3
    THEN "AssertionError"
    ELSE ""

\* make_scales: all factors normalised to lists, ndim * [factor] for an int
NormalizedFactors(downscale_factors, ndim) ==
    [i \in 1..Len(downscale_factors) |->
        IF downscale_factors[i].kind = "int"
        THEN ListFactor([j \in 1..ndim |-> downscale_factors[i].v[1]])
        ELSE downscale_factors[i]]

\* the factor [1, 1, 1] of the first level
FirstLevelFactor == ListFactor(<<1, 1, 1>>)

\* make_scales: the factors it returns, with the first level added
MakeScalesResult(downscale_factors, ndim) ==
    <<FirstLevelFactor>> \o NormalizedFactors(downscale_factors, ndim)

\* the parameters of write_xml_metadata, none of which has a default
WriteXmlParameters ==
    {"xml_path", "data_path", "unit", "resolution", "is_h5", "setup_id", "timepoint",
     "setup_name", "affine", "attributes"}
\* the arguments convert_to_bdv and make_bdv pass to it
ConvertXmlArguments ==
    {"xml_path", "data_path", "unit", "resolution", "setup_id", "setup_name"}
\* a call binds its arguments: a required parameter without argument is a TypeError
BindArguments(parameters, arguments) ==
    IF parameters \ arguments # {} THEN "TypeError" ELSE ""

\* mutant: every stage reads the base level
StageKeysFromBase(setup_id, scale) ==
    [in |-> <<setup_id, 0>>, out |-> <<setup_id, scale + 1>>]

\* make_scales: the levels of in_key and out_key of the stage of this scale, as
\* (setup, scale level) of timepoint 0
StageKeys(setup_id, scale) ==
    [in |-> <<setup_id, scale>>, out |-> <<setup_id, scale + 1>>]

\* no run yet. start and xml0 are the container and the document the run found,
\* levels the scale levels the run has created, stages the keys its stages used
Idle ==
    [pc |-> "idle", args |-> <<>>, setup_id |-> 0, scale |-> 0, factors |-> <<>>,
     err |-> "", start |-> EmptyContainer, xml0 |-> NoDocument, levels |-> {},
     stages |-> <<>>]

----------------------------------------------------------------------------
(* copy_dataset *)

\* the ranges [lo, hi) that tile 0..n-1 in steps of the chunk length
AxisBlocks(n, chunk) ==
    [i \in 1..((n + chunk - 1) \div chunk) |-> <<(i - 1) * chunk, Min(i * chunk, n)>>]

\* blocking(shape, chunks): the bounding boxes that tile the volume, the first
\* axis outermost
Blocking(shape, chunks) ==
    LET bz == AxisBlocks(shape[1], chunks[1])
        by == AxisBlocks(shape[2], chunks[2])
        bx == AxisBlocks(shape[3], chunks[3])
        n == Len(bz) * Len(by) * Len(bx)
    IN  [i \in 1..n |->
            <<bz[((i - 1) \div (Len(by) * Len(bx))) + 1],
              by[(((i - 1) \div Len(bx)) % Len(by)) + 1],
              bx[((i - 1) % Len(bx)) + 1]>>]

\* the coordinates of a volume and of a bounding box
Coords(shape) == (0..(shape[1] - 1)) \X (0..(shape[2] - 1)) \X (0..(shape[3] - 1))
BlockCoords(bb) ==
    (bb[1][1]..(bb[1][2] - 1)) \X (bb[2][1]..(bb[2][2] - 1)) \X (bb[3][1]..(bb[3][2] - 1))

RECURSIVE SumOver(_, _)
\* data.sum() of the block of ds at the coordinates S
SumOver(ds, S) ==
    IF S = {} THEN 0
    ELSE LET c == CHOOSE x \in S : TRUE IN ds[c] + SumOver(ds, S \ {c})

\* copy_chunk skips the block: `if data.sum() == 0: return`
SkipsChunk(ds_in, bb) == SumOver(ds_in, BlockCoords(bb)) = 0

\* copy_chunk(bb): the destination after the block is handled
CopyChunk(ds_in, ds_out, bb) ==
    IF SkipsChunk(ds_in, bb) THEN ds_out
    ELSE [c \in DOMAIN ds_out |-> IF c \in BlockCoords(bb) THEN ds_in[c] ELSE ds_out[c]]

NoCopy == [pc |-> "idle", ds_in |-> <<>>, ds_out |-> <<>>, blocks |-> <<>>, next |-> 0,
           written |-> {}]

----------------------------------------------------------------------------
(* Inputs of the calls *)

SetupIds == {0, 1}
Timepoints == {0, 2, 5}
AttributeIds == {0, 1}

\* resolutions (dz, dy, dx) and shapes (nz, ny, nx)
ResolutionA == <<PyFloat(1), PyFloat(2), PyFloat(3)>>
ResolutionB == <<PyFloat(2), PyFloat(2), PyFloat(3)>>
ShapeA == <<1, 2, 3>>
ShapeB == <<2, 2, 3>>

NoAffine == [kind |-> "none"]
\* the identity, given with int entries
AffineInts ==
    [kind |-> "list",
     trafo |-> <<PyInt(1), PyInt(0), PyInt(0), PyInt(0),
                 PyInt(0), PyInt(1), PyInt(0), PyInt(0),
                 PyInt(0), PyInt(0), PyInt(1), PyInt(0)>>]
\* a scaling and a translation, given with float entries
AffineFloats ==
    [kind |-> "list",
     trafo |-> <<PyFloat(2), PyFloat(0), PyFloat(0), PyFloat(5),
                 PyFloat(0), PyFloat(2), PyFloat(0), PyFloat(6),
                 PyFloat(0), PyFloat(0), PyFloat(4), PyFloat(7)>>]
\* two named transforms
AffineDict ==
    [kind |-> "dict",
     items |-> << <<"scale", AffineFloats.trafo>>, <<"flip", AffineInts.trafo>> >>]

\* the call every input set varies
BaseArgs(s) ==
    [setup_id |-> s, timepoint |-> 0, setup_name |-> None, unit |-> "pixel",
     resolution |-> ResolutionA, shape |-> ShapeA, is_h5 |-> TRUE,
     affine |-> NoAffine, attributes |-> << <<"channel", 0>> >>]

\* calls that differ from the base in one field of the view setup
SetupInputs ==
    UNION {{BaseArgs(s),
            [BaseArgs(s) EXCEPT !.setup_name = Some("raw")],
            [BaseArgs(s) EXCEPT !.shape = ShapeB],
            [BaseArgs(s) EXCEPT !.unit = "micrometer"],
            [BaseArgs(s) EXCEPT !.resolution = ResolutionB],
            [BaseArgs(s) EXCEPT !.attributes = << <<"channel", 1>> >>],
            [BaseArgs(s) EXCEPT !.attributes = << <<"channel", 0>>, <<"tile", 0>> >>],
            [BaseArgs(s) EXCEPT !.attributes = <<>>],
            [BaseArgs(s) EXCEPT !.timepoint = 2]} : s \in SetupIds}

\* calls that differ in the timepoint
TimeInputs ==
    {[BaseArgs(s) EXCEPT !.timepoint = t] : s \in SetupIds, t \in Timepoints} \cup
    {[BaseArgs(0) EXCEPT !.timepoint = t, !.setup_name = Some("raw")] : t \in Timepoints}

\* calls that differ in the affine transformation
AffineInputs ==
    {[BaseArgs(s) EXCEPT !.timepoint = t, !.affine = f] :
        s \in SetupIds, t \in {0, 2}, f \in {NoAffine, AffineInts, AffineDict}}

\* requested attributes of validate_attributes: ids or None
RequestedAttributes ==
    {<<>>} \cup
    {<< <<"channel", i>> >> : i \in {None} \cup {Some(n) : n \in AttributeIds}} \cup
    {<< <<"channel", None>>, <<"tile", None>> >>}

\* chunk shapes (z, y, x) and element types of the datasets
ChunkA == <<1, 2, 4>>
ChunkB == <<2, 2, 2>>
DatasetKinds == {<<ChunkA, "uint8">>, <<ChunkB, "int16">>}

\* scale factors per level, as make_scales returns them and as callers may give them
H5ScaleFactors ==
    {<<ListFactor(<<1, 1, 1>>)>>,
     <<ListFactor(<<1, 1, 1>>), ListFactor(<<2, 2, 2>>)>>,
     <<ListFactor(<<1, 1, 1>>), IntFactor(2)>>,
     <<ListFactor(<<1, 1, 1>>), ListFactor(<<1, 2, 2>>)>>}
N5ScaleFactors ==
    {<<ListFactor(<<1, 1, 1>>)>>,
     <<ListFactor(<<1, 1, 1>>), ListFactor(<<2, 2, 2>>)>>,
     <<ListFactor(<<1, 1, 1>>), ListFactor(<<1, 2, 2>>)>>}

\* the downscale factors of a conversion run
DownscaleFactorInputs ==
    {None,
     Some(<<>>),
     Some(<<IntFactor(2)>>),
     Some(<<IntFactor(2), ListFactor(<<1, 2, 2>>)>>),
     Some(<<ListFactor(<<1, 2, 2>>), IntFactor(3)>>),
     Some(<<ListFactor(<<2, 2>>)>>),
     Some(<<IntFactor(0)>>),
     Some(<<ListFactor(<<1, -2, 2>>)>>),
     Some(<<FloatFactor(2)>>)}

\* the setup_id argument of handle_setup_id: None or an int
SetupIdInputs == {None} \cup {Some(i) : i \in {-1, 0, 1, 99, 100}}

BaseConvertArgs ==
    [ndim |-> 3, resolution |-> <<1, 1, 1>>, ext |-> ".h5", setup_id |-> None,
     answer |-> "n", downscale_factors |-> None, downscale_mode |-> "nearest"]

\* runs that differ from the base in one argument
ConvertInputs ==
    {[BaseConvertArgs EXCEPT !.downscale_factors = d] : d \in DownscaleFactorInputs} \cup
    {[BaseConvertArgs EXCEPT !.setup_id = Some(i), !.answer = w] :
        i \in {0, 1, 100}, w \in {"n", "y"}} \cup
    {[BaseConvertArgs EXCEPT !.resolution = <<1, 1>>],
     [BaseConvertArgs EXCEPT !.ext = ".n5"],
     [BaseConvertArgs EXCEPT !.ext = ".xml"],
     [BaseConvertArgs EXCEPT !.downscale_factors = Some(<<IntFactor(2)>>),
                             !.downscale_mode = "median"]}

\* the volume copy_dataset copies: shape (nz, ny, nx), signed integer elements,
\* chunk shapes of the destination
VolumeShape == <<1, 2, 3>>
VoxelValues == {-1, 0, 1}
CopyChunks == {<<1, 1, 2>>, <<1, 2, 2>>}

AttributeNames == {"channel", "tile"}
DisplayNames == {"DAPI"}

----------------------------------------------------------------------------
(* The calls *)

NoCall == [op |-> "", args |-> <<>>, err |-> "", value |-> <<>>]

NoHistory == [tps |-> {}, firstw |-> [s \in SetupIds |-> None]]

Init ==
    /\ xml = NoDocument
    /\ call = NoCall
    /\ ncalls = 0
    /\ hist = NoHistory
    /\ container = EmptyContainer
    /\ conv = Idle
    /\ copy = NoCopy

\* write_xml_metadata(xml_path, data_path, unit, resolution, is_h5, setup_id,
\*                    timepoint, setup_name, affine, attributes)
WriteXmlMetadata(a) ==
    /\ ncalls < MaxCalls
    /\ LET r == WriteXml(xml, a)
       IN  /\ xml' = r.doc
           /\ call' = [op |-> "write_xml_metadata", args |-> a, err |-> r.err, value |-> <<>>]
           /\ hist' = IF r.err # "" THEN hist
                      ELSE [tps |-> hist.tps \cup {a.timepoint},
                            firstw |-> IF hist.firstw[a.setup_id] = None
                                       THEN [hist.firstw EXCEPT ![a.setup_id] = Some(a)]
                                       ELSE hist.firstw]
    /\ ncalls' = ncalls + 1
    /\ UNCHANGED <<container, conv, copy>>

\* write_attribute_name(xml_path, attribute, attribute_id, attribute_name)
WriteAttributeNameCall(attribute, attribute_id, attribute_name) ==
    /\ ncalls < MaxCalls
    /\ LET r == WriteAttributeName(xml, attribute, attribute_id, attribute_name)
       IN  /\ xml' = r.doc
           /\ call' = [op |-> "write_attribute_name",
                       args |-> <<attribute, attribute_id, attribute_name>>,
                       err |-> r.err, value |-> <<>>]
    /\ ncalls' = ncalls + 1
    /\ UNCHANGED <<hist, container, conv, copy>>

\* validate_attributes(xml_path, attributes, setup_id)
ValidateAttributesCall(attributes, setup_id) ==
    /\ ncalls < MaxCalls
    /\ LET r == ValidateAttributes(xml, attributes, setup_id)
       IN  call' = [op |-> "validate_attributes",
                    args |-> [attributes |-> attributes, setup_id |-> setup_id],
                    err |-> r.err, value |-> r.value]
    /\ ncalls' = ncalls + 1
    /\ UNCHANGED <<xml, hist, container, conv, copy>>

\* get_affine(xml_path, setup_id, timepoint)
GetAffineCall(setup_id, timepoint) ==
    /\ ncalls < MaxCalls
    /\ xml.exists
    /\ LET r == GetAffine(xml, setup_id, timepoint)
       IN  call' = [op |-> "get_affine",
                    args |-> [setup_id |-> setup_id, timepoint |-> timepoint],
                    err |-> r.err, value |-> r.value]
    /\ ncalls' = ncalls + 1
    /\ UNCHANGED <<xml, hist, container, conv, copy>>

\* a dataset for the next scale level of a setup and timepoint is created in the
\* container (by the copy of the base level or by a downsampling stage)
CreateDataset(format, key, chunks, dtype) ==
    /\ ncalls < MaxCalls
    /\ container.format \in {"", format}
    /\ Len(container.data[key]) < MaxLevels
    /\ container' = [container EXCEPT !.format = format,
                                      !.data[key] = Append(@, NewDataset(chunks, dtype))]
    /\ call' = [op |-> "create_dataset",
                args |-> [key |-> key, chunks |-> chunks, dtype |-> dtype],
                err |-> "", value |-> <<>>]
    /\ ncalls' = ncalls + 1
    /\ UNCHANGED <<xml, hist, conv, copy>>

\* write_h5_metadata(path, scale_factors, setup_id, timepoint)
WriteH5Metadata(scale_factors, setup_id, timepoint) ==
    /\ ncalls < MaxCalls
    /\ container.format = "hdf5"
    /\ LET r == WriteH5(container, scale_factors, setup_id, timepoint)
       IN  /\ container' = r.c
           /\ call' = [op |-> "write_h5_metadata",
                       args |-> [scale_factors |-> scale_factors, setup_id |-> setup_id,
                                 timepoint |-> timepoint],
                       err |-> r.err,
                       \* whether the call found a resolutions record
                       value |-> IF container.resolutions[setup_id] = None
                                 THEN <<"absent">> ELSE <<"present">>]
    /\ ncalls' = ncalls + 1
    /\ UNCHANGED <<xml, hist, conv, copy>>

\* write_n5_metadata(path, scale_factors, resolution, setup_id, timepoint)
WriteN5Metadata(scale_factors, resolution, setup_id, timepoint) ==
    /\ ncalls < MaxCalls
    /\ container.format = "n5"
    /\ LET r == WriteN5(container, scale_factors, resolution, setup_id, timepoint)
       IN  /\ container' = r.c
           /\ call' = [op |-> "write_n5_metadata",
                       args |-> [scale_factors |-> scale_factors, resolution |-> resolution,
                                 setup_id |-> setup_id, timepoint |-> timepoint],
                       err |-> r.err, value |-> <<>>]
    /\ ncalls' = ncalls + 1
    /\ UNCHANGED <<xml, hist, conv, copy>>

\* container-native metadata: datasets are created, metadata is written for them
NextMeta ==
    \/ \E f \in {"hdf5", "n5"}, k \in DataKeys, d \in DatasetKinds :
            CreateDataset(f, k, d[1], d[2])
    \/ \E sf \in H5ScaleFactors, k \in DataKeys : WriteH5Metadata(sf, k[1], k[2])
    \/ \E sf \in N5ScaleFactors, r \in {[i \in 1..3 |-> ResolutionA[i].v],
                                          [i \in 1..3 |-> ResolutionB[i].v]},
          k \in DataKeys :
            WriteN5Metadata(sf, r, k[1], k[2])

SpecMeta == Init /\ [][NextMeta]_vars

\* convert_to_bdv / make_bdv up to the copy: the arguments are validated, the
\* output path is normalised and the setup id is chosen
ConvertStart(a) ==
    /\ conv.pc \in {"idle", "done", "failed"}
    /\ ncalls < MaxCalls
    /\ LET ext_err == NormalizeOutputPath(a.ext)
           h == HandleSetupId(container, a.setup_id, a.answer)
           err == IF a.ndim # 3 \/ Len(a.resolution) # a.ndim THEN "AssertionError"
                  ELSE IF ext_err # "" THEN ext_err
                  ELSE h.err
       IN  /\ (err = "" => <<h.id, 0>> \in DataKeys)
           /\ conv' = [pc |-> IF err = "" THEN "copy" ELSE "failed",
                       args |-> a,
                       setup_id |-> IF err = "" THEN h.id ELSE 0,
                       scale |-> 0, factors |-> <<>>, err |-> err,
                       start |-> container, xml0 |-> xml, levels |-> {},
                       stages |-> <<>>]
           /\ call' = [op |-> "convert_to_bdv", args |-> a, err |-> err, value |-> <<>>]
    /\ ncalls' = ncalls + 1
    /\ UNCHANGED <<xml, hist, container, copy>>

\* the base level is written: copy_dataset (convert_to_bdv) or create_dataset
\* (make_bdv) creates the dataset of scale level 0
CopyBase(chunks, dtype) ==
    /\ conv.pc = "copy"
    /\ LET key == <<conv.setup_id, 0>>
       IN  IF container.data[key] # <<>>
           THEN /\ conv' = [conv EXCEPT !.pc = "failed",
                                        !.err = "ValueError: name already exists"]
                /\ UNCHANGED container
           ELSE /\ container' = [container EXCEPT
                                    !.format = "hdf5",
                                    !.data[key] = <<NewDataset(chunks, dtype)>>]
                /\ conv' = [conv EXCEPT !.pc = "scales", !.levels = {0}]
    /\ UNCHANGED <<xml, call, ncalls, hist, copy>>

\* downscale_factors is None: a single level; otherwise make_scales is entered
\* and checks its arguments
MakeScales ==
    /\ conv.pc = "scales"
    /\ IF conv.args.downscale_factors = None
       THEN conv' = [conv EXCEPT !.pc = "h5meta", !.factors = <<FirstLevelFactor>>]
       ELSE LET err == MakeScalesAsserts(conv.args.downscale_factors[1],
                                         conv.args.downscale_mode)
            IN  conv' = IF err # ""
                        THEN [conv EXCEPT !.pc = "failed", !.err = err]
                        ELSE [conv EXCEPT !.pc = "stage", !.scale = 0]
    /\ UNCHANGED <<xml, call, ncalls, hist, container, copy>>

\* one downsampling stage of make_scales: level scale + 1 is made from level scale
DownsampleStage(chunks) ==
    /\ conv.pc = "stage"
    /\ conv.scale < Len(conv.args.downscale_factors[1])
    /\ LET key == <<conv.setup_id, 0>>
           levels == container.data[key]
           k == StageKeys(conv.setup_id, conv.scale)
       IN  /\ Len(levels) = conv.scale + 1
           /\ k.in[2] < Len(levels)
           /\ container' = [container EXCEPT
                                !.data[key] = Append(levels,
                                                     NewDataset(chunks,
                                                                levels[k.in[2] + 1].dtype))]
           /\ conv' = [conv EXCEPT !.scale = @ + 1,
                                   !.levels = @ \cup {k.out[2]},
                                   !.stages = Append(@, k)]
    /\ UNCHANGED <<xml, call, ncalls, hist, copy>>

\* a downsampling stage fails: downsample raises, after it has created the
\* dataset of its output level (partial) or before
DownsampleFails(partial, chunks) ==
    /\ conv.pc = "stage"
    /\ conv.scale < Len(conv.args.downscale_factors[1])
    /\ LET key == <<conv.setup_id, 0>>
           levels == container.data[key]
           k == StageKeys(conv.setup_id, conv.scale)
       IN  /\ Len(levels) = conv.scale + 1
           /\ k.in[2] < Len(levels)
           /\ container' = IF partial
                           THEN [container EXCEPT
                                    !.data[key] = Append(levels,
                                                         NewDataset(chunks,
                                                                    levels[k.in[2] + 1].dtype))]
                           ELSE container
           /\ conv' = [conv EXCEPT !.pc = "failed", !.err = "downsample failed",
                                   !.levels = IF partial THEN @ \cup {k.out[2]} ELSE @,
                                   !.stages = Append(@, k)]
    /\ UNCHANGED <<xml, call, ncalls, hist, copy>>

\* make_scales returns the factors, the first level added
MakeScalesReturn ==
    /\ conv.pc = "stage"
    /\ conv.scale = Len(conv.args.downscale_factors[1])
    /\ conv' = [conv EXCEPT !.pc = "h5meta",
                            !.factors = MakeScalesResult(conv.args.downscale_factors[1],
                                                         conv.args.ndim)]
    /\ UNCHANGED <<xml, call, ncalls, hist, container, copy>>

\* mutant: the XML document is written together with the container metadata
ConvertWriteH5AndXml ==
    /\ conv.pc = "h5meta"
    /\ LET r == WriteH5(container, conv.factors, conv.setup_id, 0)
       IN  /\ container' = r.c
           /\ conv' = IF r.err # "" THEN [conv EXCEPT !.pc = "failed", !.err = r.err]
                      ELSE [conv EXCEPT !.pc = "xmlmeta"]
    /\ xml' = WriteXml(xml, BaseArgs(conv.setup_id)).doc
    /\ UNCHANGED <<call, ncalls, hist, copy>>

\* write_h5_metadata(h5_path, factors, setup_id)
ConvertWriteH5 ==
    /\ conv.pc = "h5meta"
    /\ LET r == WriteH5(container, conv.factors, conv.setup_id, 0)
       IN  /\ container' = r.c
           /\ conv' = IF r.err # "" THEN [conv EXCEPT !.pc = "failed", !.err = r.err]
                      ELSE [conv EXCEPT !.pc = "xmlmeta"]
    /\ UNCHANGED <<xml, call, ncalls, hist, copy>>

\* write_xml_metadata(xml_path, h5_path, unit, resolution, setup_id=setup_id,
\* setup_name=setup_name): the call lacks the arguments is_h5, timepoint, affine
\* and attributes, which have no default, so it raises before the body runs
ConvertWriteXml ==
    /\ conv.pc = "xmlmeta"
    /\ LET err == BindArguments(WriteXmlParameters, ConvertXmlArguments)
           r == WriteXml(xml, BaseArgs(conv.setup_id))
       IN  IF err # ""
           THEN /\ conv' = [conv EXCEPT !.pc = "failed", !.err = err]
                /\ UNCHANGED xml
           ELSE /\ conv' = [conv EXCEPT !.pc = IF r.err = "" THEN "done" ELSE "failed",
                                        !.err = r.err]
                /\ xml' = r.doc
    /\ UNCHANGED <<call, ncalls, hist, container, copy>>

\* copy_dataset(input_path, input_key, output_path, output_key, convert_dtype=False)
\* up to its loop: the destination dataset is created, with the shape and the
\* element type of the source, and reads as zeros
CopyDatasetStart(ds_in, chunks) ==
    /\ copy.pc = "idle"
    /\ copy' = [pc |-> "copying", ds_in |-> ds_in,
                ds_out |-> [c \in Coords(VolumeShape) |-> 0],
                blocks |-> Blocking(VolumeShape, chunks), next |-> 1, written |-> {}]
    /\ UNCHANGED <<xml, call, ncalls, hist, container, conv>>

\* one turn of the loop of copy_dataset: copy_chunk(bb) for the next block
CopyChunkStep ==
    /\ copy.pc = "copying"
    /\ copy.next <= Len(copy.blocks)
    /\ LET bb == copy.blocks[copy.next]
       IN  copy' = [copy EXCEPT
                        !.ds_out = CopyChunk(copy.ds_in, copy.ds_out, bb),
                        !.written = IF SkipsChunk(copy.ds_in, bb) THEN @ ELSE @ \cup {bb},
                        !.next = @ + 1]
    /\ UNCHANGED <<xml, call, ncalls, hist, container, conv>>

\* the loop of copy_dataset is over
CopyDatasetReturn ==
    /\ copy.pc = "copying"
    /\ copy.next > Len(copy.blocks)
    /\ copy' = [copy EXCEPT !.pc = "done"]
    /\ UNCHANGED <<xml, call, ncalls, hist, container, conv>>

\* one copy of a volume
NextCopy ==
    \/ \E ds_in \in [Coords(VolumeShape) -> VoxelValues], chunks \in CopyChunks :
            CopyDatasetStart(ds_in, chunks)
    \/ CopyChunkStep
    \/ CopyDatasetReturn

SpecCopy == Init /\ [][NextCopy]_vars

\* conversion runs
NextConv ==
    \/ \E a \in ConvertInputs : ConvertStart(a)
    \/ \E d \in DatasetKinds : CopyBase(d[1], d[2])
    \/ MakeScales
    \/ \E d \in DatasetKinds : DownsampleStage(d[1])
    \/ \E partial \in BOOLEAN, d \in DatasetKinds : DownsampleFails(partial, d[1])
    \/ MakeScalesReturn
    \/ ConvertWriteH5
    \/ ConvertWriteXml

SpecConv == Init /\ [][NextConv]_vars

\* the direct call that writes a document for the runs to find
RunXmlInputs == {BaseArgs(0)}

\* write_xml_metadata called directly while no conversion run is under way
XmlBeforeRun(a) ==
    /\ conv.pc \in {"idle", "done", "failed"}
    /\ WriteXmlMetadata(a)

\* conversion runs next to a document that direct calls have written
NextRun ==
    \/ NextConv
    \/ \E a \in RunXmlInputs : XmlBeforeRun(a)

SpecRun == Init /\ [][NextRun]_vars

\* handle_setup_id(setup_id, h5_path) on the container as it is
HandleSetupIdCall(setup_id, answer) ==
    /\ ncalls < MaxCalls
    /\ LET r == HandleSetupId(container, setup_id, answer)
       IN  call' = [op |-> "handle_setup_id",
                    args |-> [setup_id |-> setup_id, answer |-> answer],
                    err |-> r.err,
                    value |-> IF r.err = "" THEN <<r.id>> ELSE <<>>]
    /\ ncalls' = ncalls + 1
    /\ UNCHANGED <<xml, hist, container, conv, copy>>

\* setup ids asked for on containers that hold some setups
NextSetup ==
    \/ \E k \in DataKeys, d \in DatasetKinds : CreateDataset("hdf5", k, d[1], d[2])
    \/ \E i \in SetupIdInputs, w \in {"n", "y"} : HandleSetupIdCall(i, w)

SpecSetup == Init /\ [][NextSetup]_vars

\* view setups: writes that agree or disagree with the recorded setup, renames,
\* validation of requested attributes
NextXml ==
    \/ \E a \in SetupInputs : WriteXmlMetadata(a)
    \/ \E n \in AttributeNames, i \in AttributeIds, d \in DisplayNames :
            WriteAttributeNameCall(n, i, d)
    \/ \E r \in RequestedAttributes, s \in SetupIds : ValidateAttributesCall(r, s)

SpecXml == Init /\ [][NextXml]_vars

\* writes at several timepoints
NextTime == \E a \in TimeInputs : WriteXmlMetadata(a)

SpecTime == Init /\ [][NextTime]_vars

\* writes with explicit affine transformations, and reading them back
NextAffine ==
    \/ \E a \in AffineInputs : WriteXmlMetadata(a)
    \/ \E s \in SetupIds, t \in {0, 2} : GetAffineCall(s, t)

SpecAffine == Init /\ [][NextAffine]_vars

----------------------------------------------------------------------------
(* Properties of the XML merge *)

\* the step is a call of write_xml_metadata
IsWriteXml == ncalls' = ncalls + 1 /\ call'.op = "write_xml_metadata"

\* the ViewSetup elements of the document with this id
SetupsWithId(doc, s) == {i \in 1..Len(doc.setups) : doc.setups[i].id = s}

\* the values of a call differ from those of a ViewSetup element in the name, the
\* size, the unit, the voxel size or the attribute-id mapping
SetupDiffers(vs, a) ==
    \/ vs.name # SetupName(a)
    \/ vs.size # <<a.shape[3], a.shape[2], a.shape[1]>>
    \/ vs.unit # a.unit
    \/ \E i \in 1..3 : Float(vs.voxelSize[i]).v # a.resolution[4 - i].v
    \/ AsDict(vs.attributes) # AsDict(a.attributes)

IncompatibilityErrors ==
    {"ValueError: Incompatible setup name", "ValueError: Incompatible dataset size",
     "ValueError: Incompatible unit of measurement", "ValueError: Incompatible voxel size",
     "ValueError: Incompatible view attributes"}

\* the step writes a setup the document holds with values that differ
IsConflictingWrite ==
    /\ IsWriteXml
    /\ xml.exists
    /\ SetupsWithId(xml, call'.args.setup_id) # {}
    /\ \E i \in SetupsWithId(xml, call'.args.setup_id) : SetupDiffers(xml.setups[i], call'.args)

\* the call's attribute mapping lacks a name of the document's Attributes registries
LacksRegisteredName(doc, a) ==
    \E i \in 1..Len(doc.attrsets) : doc.attrsets[i].name \notin Keys(a.attributes)

\* C1 as stated: a write of a setup the document holds, with a name, size, unit,
\* voxel size or attribute mapping that differs from the recorded one, fails with
\* an incompatibility ValueError and leaves the document on disk as it was.
C1_ConflictRaisesValueError ==
    [][IsConflictingWrite => (call'.err \in IncompatibilityErrors /\ xml' = xml)]_vars

\* C1 amended: such a write fails and leaves the document on disk as it was; the
\* error is the AssertionError of _update_attributes when the mapping lacks a
\* registered attribute name, and an incompatibility ValueError otherwise.
C1_ConflictFailsUnchanged ==
    [][IsConflictingWrite =>
        /\ xml' = xml
        /\ IF LacksRegisteredName(xml, call'.args)
           THEN call'.err = "AssertionError"
           ELSE call'.err \in IncompatibilityErrors]_vars

\* C1 witness: a write of a recorded setup under another name has failed
C1_Witness ==
    /\ call.op = "write_xml_metadata"
    /\ call.err = "ValueError: Incompatible setup name"
    /\ SetupsWithId(xml, call.args.setup_id) # {}
    /\ \A i \in SetupsWithId(xml, call.args.setup_id) : xml.setups[i].name # SetupName(call.args)

\* C2 as stated: a write that repeats the successful write before it, with the
\* same arguments, succeeds and leaves the document as the first write left it.
C2_RewriteIsIdempotent ==
    [][(/\ IsWriteXml
        /\ call.op = "write_xml_metadata"
        /\ call.err = ""
        /\ call'.args = call.args)
       => (call'.err = "" /\ xml' = xml)]_vars

\* the timepoints range is the span of the timepoints written
RangeIsSpan ==
    xml.exists =>
        /\ hist.tps # {}
        /\ \A t \in hist.tps : xml.first <= t /\ t <= xml.last
        /\ xml.first \in hist.tps
        /\ xml.last \in hist.tps

\* C7: after successful writes at timepoints t1..tn the Timepoints range is
\* [min, max] of them, and no call raises `first` or lowers `last`.
C7_TimepointRange ==
    /\ [](RangeIsSpan /\ (xml.exists => GetTimeRange(xml) = <<xml.first, xml.last>>))
    /\ [][xml.exists => (xml'.first <= xml.first /\ xml'.last >= xml.last)]_vars

\* C7 witness: timepoints 2, 0, 5 were written in this order and the range is [0, 5]
C7_Witness ==
    /\ Len(xml.vregs) = 3
    /\ xml.vregs[1].timepoint = 2
    /\ xml.vregs[2].timepoint = 0
    /\ xml.vregs[3].timepoint = 5
    /\ GetTimeRange(xml) = <<0, 5>>

\* a list of numbers as floats
AsFloats(trafo) == [i \in 1..Len(trafo) |-> PyFloat(trafo[i].v)]

\* what reading back an affine argument should give
ExpectedAffine(affine) ==
    IF affine.kind = "list" THEN << <<"affine0", AsFloats(affine.trafo)>> >>
    ELSE [k \in 1..Len(affine.items) |->
            <<affine.items[k][1], AsFloats(affine.items[k][2])>>]

\* C8 as stated: after a successful write with an explicit affine, get_affine for
\* that setup and timepoint returns the transforms of that write.
C8_AffineRoundTrip ==
    (call.op = "write_xml_metadata" /\ call.err = "" /\ call.args.affine.kind # "none")
    => GetAffine(xml, call.args.setup_id, call.args.timepoint)
         = [err |-> "", value |-> ExpectedAffine(call.args.affine)]

\* C9: a setup that was written is held by exactly one ViewSetup element, with
\* the name, size, unit, voxel size and attribute mapping of its first write.
C9_SetupImmutable ==
    \A s \in SetupIds :
        hist.firstw[s] # None =>
            /\ Cardinality(SetupsWithId(xml, s)) = 1
            /\ \A i \in SetupsWithId(xml, s) : ~SetupDiffers(xml.setups[i], hist.firstw[s][1])

\* C9 witness: a conflicting write of a recorded setup was made after a rename
C9_Witness ==
    /\ call.op = "write_xml_metadata"
    /\ call.err \in IncompatibilityErrors
    /\ hist.firstw[call.args.setup_id] # None
    /\ \E i \in 1..Len(xml.attrsets) :
            \E j \in 1..Len(xml.attrsets[i].entries) : xml.attrsets[i].entries[j].name = "DAPI"

\* the ids of the registry of an attribute name
RegistryIds(doc, name) ==
    UNION {{doc.attrsets[i].entries[j].id : j \in 1..Len(doc.attrsets[i].entries)} :
            i \in {k \in 1..Len(doc.attrsets) : doc.attrsets[k].name = name}}

RegisteredNames(doc) == {doc.attrsets[i].name : i \in 1..Len(doc.attrsets)}

\* C10: validate_attributes resolves an unset id to 0 when there is no document,
\* to the maximum id of the registry plus one when the document holds no ViewSetup
\* of the setup (an id the registry does not hold), and to the id recorded in the
\* ViewSetup when it does; with the registered names all requested unset it succeeds.
C10_UnsetIdResolution ==
    call.op = "validate_attributes" =>
        LET req == call.args.attributes
            unset == {n \in Keys(req) : Lookup(req, n) = None}
            held == SetupsWithId(xml, call.args.setup_id)
        IN  /\ ~xml.exists =>
                /\ call.err = ""
                /\ Keys(call.value) = Keys(req)
                /\ \A n \in unset : Lookup(call.value, n) = 0
            /\ (xml.exists /\ Keys(req) = RegisteredNames(xml) /\ unset = Keys(req)) =>
                call.err = ""
            /\ (xml.exists /\ call.err = "") =>
                /\ Keys(call.value) = Keys(req)
                /\ \A n \in unset :
                    IF held = {}
                    THEN /\ \A i \in RegistryIds(xml, n) : Lookup(call.value, n) >= i + 1
                         /\ Lookup(call.value, n) - 1 \in RegistryIds(xml, n)
                         /\ Lookup(call.value, n) \notin RegistryIds(xml, n)
                    ELSE \E i \in held :
                            Lookup(call.value, n) = Lookup(xml.setups[i].attributes, n)

\* C10 witness: the first setup was written with id 0, and an unset id requested
\* for a new setup has resolved to 1
C10_Witness ==
    /\ call.op = "validate_attributes"
    /\ call.args.attributes = << <<"channel", None>> >>
    /\ xml.exists
    /\ Len(xml.setups) = 1
    /\ SetupsWithId(xml, call.args.setup_id) = {}
    /\ RegistryIds(xml, "channel") = {0}
    /\ call.value = << <<"channel", 1>> >>

----------------------------------------------------------------------------
(* Properties of the container-native metadata *)

IsWriteH5 == ncalls' = ncalls + 1 /\ call'.op = "write_h5_metadata"
IsWriteN5 == ncalls' = ncalls + 1 /\ call'.op = "write_n5_metadata"

ConsistencyError == "RuntimeError: Metadata already exists and is inconsistent"

\* the metadata the container holds: everything but the format
MetadataStore(c) ==
    [resolutions |-> c.resolutions, subdivisions |-> c.subdivisions,
     rootAttrs |-> c.rootAttrs, groupAttrs |-> c.groupAttrs,
     levelAttrs |-> [k \in DataKeys |->
                        [i \in 1..Len(c.data[k]) |-> c.data[k][i].downsamplingFactors]]]

\* the arrays an HDF5 call computes disagree with a record of the setup
H5Conflict(c, a) ==
    /\ Len(a.scale_factors) <= Len(c.data[<<a.setup_id, a.timepoint>>])
    /\ \/ /\ c.resolutions[a.setup_id] # None
          /\ c.resolutions[a.setup_id][1] # H5Scales(a.scale_factors)
       \/ /\ c.subdivisions[a.setup_id] # None
          /\ c.subdivisions[a.setup_id][1]
                # H5Chunks(c.data[<<a.setup_id, a.timepoint>>], a.scale_factors)

\* the factors or the data type an N5 call computes disagree with an attribute
\* of the setup
N5Conflict(c, a) ==
    /\ c.data[<<a.setup_id, a.timepoint>>] # <<>>
    /\ \/ /\ c.rootAttrs[a.setup_id].downsamplingFactors # None
          /\ c.rootAttrs[a.setup_id].downsamplingFactors[1]
                # N5EffectiveScales(a.scale_factors)
       \/ /\ c.rootAttrs[a.setup_id].dataType # None
          /\ c.rootAttrs[a.setup_id].dataType[1]
                # c.data[<<a.setup_id, a.timepoint>>][1].dtype

\* the resolution an N5 call is given differs from the one stored for the
\* setup and timepoint
N5ResolutionConflict(c, a) ==
    /\ c.groupAttrs[<<a.setup_id, a.timepoint>>].resolution # None
    /\ c.groupAttrs[<<a.setup_id, a.timepoint>>].resolution[1] # Reversed(a.resolution)

\* C3 as stated: a write_h5_metadata or write_n5_metadata call with inputs that
\* conflict with metadata stored for the setup raises the consistency error and
\* leaves every value of the metadata store as it was.
C3_AnyConflictRaises ==
    [][((IsWriteH5 /\ H5Conflict(container, call'.args))
        \/ (IsWriteN5 /\ (\/ N5Conflict(container, call'.args)
                          \/ N5ResolutionConflict(container, call'.args))))
       => (/\ call'.err = ConsistencyError
           /\ MetadataStore(container') = MetadataStore(container))]_vars

\* C3 amended: a write_h5_metadata or write_n5_metadata call whose scale factors,
\* chunk shapes or data type conflict with what is stored for the setup raises
\* the consistency error, and a call that raises it leaves every value of the
\* metadata store as it was.
C3_ConflictLeavesStore ==
    [][/\ (IsWriteH5 /\ H5Conflict(container, call'.args)) => call'.err = ConsistencyError
       /\ (IsWriteN5 /\ N5Conflict(container, call'.args)) => call'.err = ConsistencyError
       /\ ((IsWriteH5 \/ IsWriteN5) /\ call'.err = ConsistencyError)
            => MetadataStore(container') = MetadataStore(container)]_vars

\* C3 witness: an N5 call has raised the consistency error for a data type that
\* differs from the recorded one, with the factors equal to the recorded ones
C3_Witness ==
    /\ call.op = "write_n5_metadata"
    /\ call.err = ConsistencyError
    /\ container.rootAttrs[call.args.setup_id].downsamplingFactors
            = Some(N5EffectiveScales(call.args.scale_factors))
    /\ container.rootAttrs[call.args.setup_id].dataType
            # Some(container.data[<<call.args.setup_id, call.args.timepoint>>][1].dtype)

\* C4: write_h5_metadata writes the computed resolutions and subdivisions when the
\* setup has no record; with a record it succeeds only if the record equals the
\* computed array, and leaves it; a call that repeats the successful call before
\* it succeeds and leaves both records as they were.
C4_CompareOrWrite ==
    [][IsWriteH5 =>
        LET a == call'.args
            s == a.setup_id
            scales == H5Scales(a.scale_factors)
            chunks == H5Chunks(container.data[<<s, a.timepoint>>], a.scale_factors)
        IN  /\ call'.err = "" =>
                /\ container'.resolutions[s] = Some(scales)
                /\ container'.subdivisions[s] = Some(chunks)
                /\ container.resolutions[s] \in {None, Some(scales)}
                /\ container.subdivisions[s] \in {None, Some(chunks)}
            /\ (container.resolutions[s] # None /\ container.subdivisions[s] # None) =>
                /\ container'.resolutions = container.resolutions
                /\ container'.subdivisions = container.subdivisions
            /\ (call.op = "write_h5_metadata" /\ call.err = "" /\ call.args = a) =>
                /\ call'.err = ""
                /\ container' = container]_vars

\* C4 witness: a call has succeeded against records an earlier call wrote for a
\* pyramid of two levels
C4_Witness ==
    /\ call.op = "write_h5_metadata"
    /\ call.err = ""
    /\ call.value = <<"present">>
    /\ Len(call.args.scale_factors) = 2
    /\ container.resolutions[call.args.setup_id] = Some(H5Scales(call.args.scale_factors))

----------------------------------------------------------------------------
(* Properties of the conversion *)

\* a factor as a triple: an int f counts as (f, f, f)
Triple(f) == IF f.kind = "int" THEN <<f.v[1], f.v[1], f.v[1]>> ELSE f.v

\* the axis-wise product of the first k factors
RECURSIVE CumulativeFactor(_, _)
CumulativeFactor(factors, k) ==
    IF k = 0 THEN <<1, 1, 1>>
    ELSE [i \in 1..3 |-> CumulativeFactor(factors, k - 1)[i] * Triple(factors[k])[i]]

\* C6: when a run has written the HDF5 metadata for factors accepted by
\* make_scales, the record has one row per level, row k is the axis-wise product
\* of the first k factors in reversed axis order, and level 0 is (1, 1, 1).
C6_CumulativeScales ==
    conv.pc = "xmlmeta" =>
        LET given == conv.args.downscale_factors
            factors == IF given = None THEN <<>> ELSE given[1]
            rows == container.resolutions[conv.setup_id]
        IN  /\ rows # None
            /\ Len(rows[1]) = Len(factors) + 1
            /\ rows[1][1] = <<1, 1, 1>>
            /\ \A k \in 0..Len(factors) :
                    /\ rows[1][k + 1] = Reversed(CumulativeFactor(factors, k))
                    /\ H5EffectiveScales(conv.factors)[k + 1] = CumulativeFactor(factors, k)

\* the factors [2, [1, 2, 2]] of the example
ExampleFactors == Some(<<IntFactor(2), ListFactor(<<1, 2, 2>>)>>)

\* C6 witness: the factors [2, [1, 2, 2]] gave the levels (1,1,1), (2,2,2), (2,4,4)
C6_Witness ==
    /\ conv.pc = "xmlmeta"
    /\ conv.args.downscale_factors = ExampleFactors
    /\ H5EffectiveScales(conv.factors) = <<<<1, 1, 1>>, <<2, 2, 2>>, <<2, 4, 4>>>>
    /\ container.resolutions[conv.setup_id] = Some(<<<<1, 1, 1>>, <<2, 2, 2>>, <<4, 4, 2>>>>)

\* C5 as stated: after copy_dataset (without dtype remapping) a block is left
\* unwritten if and only if every element of the source block is zero, and the
\* destination reads back equal to the source at every coordinate.
C5_CopyIsFaithful ==
    copy.pc = "done" =>
        /\ \A i \in 1..Len(copy.blocks) :
                (copy.blocks[i] \notin copy.written)
                    <=> (\A c \in BlockCoords(copy.blocks[i]) : copy.ds_in[c] = 0)
        /\ \A c \in Coords(VolumeShape) : copy.ds_out[c] = copy.ds_in[c]

----------------------------------------------------------------------------
(* Properties of validate_attributes *)

\* the step is a call of validate_attributes
IsValidateAttributes == ncalls' = ncalls + 1 /\ call'.op = "validate_attributes"

\* an explicitly requested id differs from the id the ViewSetup of the setup
\* records for the name
ExplicitIdConflict(doc, a) ==
    \E n \in Keys(a.attributes) :
        /\ Lookup(a.attributes, n) # None
        /\ \E i \in SetupsWithId(doc, a.setup_id) :
                /\ n \in Keys(doc.setups[i].attributes)
                /\ Lookup(doc.setups[i].attributes, n) # Lookup(a.attributes, n)[1]

\* the requested mapping holds a name the document does not register
UnregisteredName(doc, a) == Keys(a.attributes) \ RegisteredNames(doc) # {}

\* C11: once the document exists, validate_attributes fails when an explicitly
\* requested id differs from the id recorded for the name in the ViewSetup of the
\* setup, and when the requested mapping holds a name that is not registered;
\* no call of validate_attributes modifies the document.
C11_ValidateRejects ==
    [][IsValidateAttributes =>
        /\ xml' = xml
        /\ (xml.exists /\ (\/ ExplicitIdConflict(xml, call'.args)
                            \/ UnregisteredName(xml, call'.args)))
             => (call'.err # "" /\ call'.value = <<>>)]_vars

\* C11 witness (a): an explicit id 1 was rejected for a setup recorded with id 0
C11_Witness ==
    /\ call.op = "validate_attributes"
    /\ xml.exists
    /\ ExplicitIdConflict(xml, call.args)
    /\ ~UnregisteredName(xml, call.args)
    /\ call.err = "ValueError: Expect id"

----------------------------------------------------------------------------
(* Properties of a conversion run *)

\* the input of a run is invalid: resolution of the wrong rank, unsupported
\* downscale mode, a factor that is neither an int nor a tuple of 3, unsupported
\* output extension
MalformedFactor(f) == f.kind \notin {"int", "list"} \/ (f.kind = "list" /\ Len(f.v) # 3)

InvalidInput(a) ==
    \/ Len(a.resolution) # a.ndim
    \/ a.downscale_mode \notin DownscaleModes
    \/ /\ a.downscale_factors # None
       /\ \E i \in 1..Len(a.downscale_factors[1]) : MalformedFactor(a.downscale_factors[1][i])
    \/ NormalizeOutputPath(a.ext) # ""

\* C12 as stated: when a run with invalid input has failed, neither the container
\* nor the XML document has been created or changed since the run started.
C12_InvalidInputNoPartialState ==
    (conv.pc = "failed" /\ InvalidInput(conv.args)) =>
        (container = conv.start /\ xml = conv.xml0)

\* a factor make_scales is said to accept: a positive integer or a tuple of
\* exactly 3 positive integers
PositiveFactor(f) ==
    \/ f.kind = "int" /\ f.v[1] > 0
    \/ f.kind = "list" /\ Len(f.v) = 3 /\ \A i \in 1..3 : f.v[i] > 0

\* C13 as stated: when some factor is not a positive integer or a tuple of 3
\* positive integers, make_scales rejects the factors before the first stage
\* runs: the run never gets past the validation and produces no scale level.
C13_RejectsNonPositive ==
    (/\ conv.pc # "idle"
     /\ conv.args.downscale_factors # None
     /\ \E i \in 1..Len(conv.args.downscale_factors[1]) :
            ~PositiveFactor(conv.args.downscale_factors[1][i]))
        => (/\ conv.pc \notin {"stage", "h5meta", "xmlmeta", "done"}
            /\ conv.stages = <<>>
            /\ conv.levels \subseteq {0})

\* C16: the stages of make_scales run in order; stage i reads scale level i of
\* the setup of the run and writes scale level i + 1; the levels the run has
\* created, and the levels the container holds for the setup, are 0..k at every
\* moment, also after a stage has failed.
C16_StagesInOrder ==
    conv.pc # "idle" =>
        /\ \A i \in 1..Len(conv.stages) :
                /\ conv.stages[i].in = <<conv.setup_id, i - 1>>
                /\ conv.stages[i].out = <<conv.setup_id, i>>
        /\ conv.levels = 0..(Cardinality(conv.levels) - 1)
        /\ conv.levels # {} =>
                /\ Len(container.data[<<conv.setup_id, 0>>]) = Cardinality(conv.levels)
                /\ Cardinality(conv.levels) \in {Len(conv.stages), Len(conv.stages) + 1}
        /\ conv.pc = "stage" => Cardinality(conv.levels) = conv.scale + 1

\* C16 witness: the second stage has failed before it created its level, and the
\* container holds the levels 0 and 1
C16_Witness ==
    /\ conv.pc = "failed"
    /\ conv.err = "downsample failed"
    /\ Len(conv.stages) = 2
    /\ conv.stages[2].in = <<conv.setup_id, 1>>
    /\ conv.levels = {0, 1}
    /\ Len(container.data[<<conv.setup_id, 0>>]) = 2

\* the step is a direct call of write_xml_metadata, not a step of a run
IsDirectXmlWrite == ncalls' = ncalls + 1 /\ call'.op = "write_xml_metadata"

\* the container holds all levels and the metadata of the view of the run
ViewComplete(c, r) ==
    /\ Len(c.data[<<r.setup_id, 0>>]) = Len(r.factors)
    /\ c.resolutions[r.setup_id] # None
    /\ c.subdivisions[r.setup_id] # None

\* C15: a step of a run changes the XML document only as the last step of the
\* run, when the container holds every level and the metadata of the view; as
\* long as the run has not reached that step, also when it has failed, the
\* document is the one the run found.
C15_XmlWrittenLast ==
    [][~IsDirectXmlWrite =>
        /\ xml' # xml => (conv.pc = "xmlmeta" /\ ViewComplete(container, conv))
        /\ conv.pc # "xmlmeta" => xml' = conv'.xml0]_vars

\* C15 witness: a run next to an existing document has failed in make_scales,
\* after the base copy; the document is the one the run found
C15_Witness ==
    /\ conv.pc = "failed"
    /\ conv.err = "AssertionError"
    /\ conv.levels = {0}
    /\ container # conv.start
    /\ xml.exists
    /\ xml = conv.xml0

\* C14 as stated: an id handle_setup_id returns is in 0..99; for None it is the
\* maximum of the setup ids of the container plus one, 0 without a container,
\* and not an id the container holds.
C14_SetupIdInRange ==
    (call.op = "handle_setup_id" /\ call.err = "") =>
        LET id == call.value[1]
        IN  /\ 0 <= id /\ id < SetupIdLimit
            /\ call.args.setup_id = None =>
                /\ id \notin ExistingSetupIds(container)
                /\ id = IF container.format = "" THEN 0
                        ELSE SetMax(ExistingSetupIds(container)) + 1

----------------------------------------------------------------------------
(* Properties of the Attributes registries *)

IsWriteAttributeName == ncalls' = ncalls + 1 /\ call'.op = "write_attribute_name"

EntryIds(reg) == {reg.entries[j].id : j \in 1..Len(reg.entries)}

\* every id occurs at most once in every registry
UniqueIds(doc) ==
    \A i \in 1..Len(doc.attrsets) :
        \A j, k \in 1..Len(doc.attrsets[i].entries) :
            doc.attrsets[i].entries[j].id = doc.attrsets[i].entries[k].id => j = k

\* write_xml_metadata on an existing document keeps every registry and every
\* entry, and appends to a registry at most the entry {id, name = str(id)} of
\* the requested id, which the registry did not hold
RegistriesGrow(old, new, attributes) ==
    /\ Len(new.attrsets) = Len(old.attrsets)
    /\ \A i \in 1..Len(old.attrsets) :
        LET o == old.attrsets[i]
            n == new.attrsets[i]
        IN  /\ n.name = o.name
            /\ \/ n.entries = o.entries
               \/ /\ o.name \in Keys(attributes)
                  /\ Lookup(attributes, o.name) \notin EntryIds(o)
                  /\ n.entries = Append(o.entries,
                                        [id |-> Lookup(attributes, o.name),
                                         name |-> StrInt(Lookup(attributes, o.name))])

\* the entries of the registries of this attribute with this id
Addressed(doc, attribute, id) ==
    {<<i, j>> \in (1..Len(doc.attrsets)) \X (1..2 * MaxCalls) :
        /\ j <= Len(doc.attrsets[i].entries)
        /\ doc.attrsets[i].name = attribute
        /\ doc.attrsets[i].entries[j].id = id}

\* write_attribute_name changes the name of the addressed entry and nothing else,
\* and fails without writing when there is no such entry
RenamesOne(old, new, c) ==
    LET hit == Addressed(old, c.args[1], c.args[2])
    IN  IF ~old.exists \/ hit = {} THEN c.err # "" /\ new = old
        ELSE /\ c.err = ""
             /\ Cardinality(hit) = 1
             /\ \E h \in hit :
                    new = [old EXCEPT !.attrsets[h[1]].entries[h[2]].name = c.args[3]]

\* C17: write_xml_metadata on an existing document never removes or renumbers an
\* entry of a registry and appends an entry only for a requested id the registry
\* does not hold; every id occurs at most once per registry; a display name
\* changes only through write_attribute_name, which renames exactly the addressed
\* entry and fails without writing when there is none.
C17_RegistriesAppendOnly ==
    /\ []UniqueIds(xml)
    /\ [][/\ (IsWriteXml /\ xml.exists) =>
                RegistriesGrow(xml, xml', call'.args.attributes)
          /\ IsWriteAttributeName => RenamesOne(xml, xml', call')
          /\ (~IsWriteXml /\ ~IsWriteAttributeName) => xml' = xml]_vars

\* C17 witness: one of the two entries of the channel registry has been renamed
C17_Witness ==
    /\ call.op = "write_attribute_name"
    /\ call.err = ""
    /\ \E i \in 1..Len(xml.attrsets) :
            /\ xml.attrsets[i].name = "channel"
            /\ Len(xml.attrsets[i].entries) = 2
            /\ \E j, k \in 1..2 :
                    /\ xml.attrsets[i].entries[j].name = "DAPI"
                    /\ xml.attrsets[i].entries[k].name # "DAPI"

====
